---------------------------- MODULE Spec2Model ----------------------------
(***************************************************************************)
(* Model of scripts/xray_reality_qr.py and scripts/vpn_cli.py: extraction  *)
(* of a VLESS Reality inbound from an Xray config document, derivation of  *)
(* the public key through the external xray binary, construction of the    *)
(* vless:// share link, and the three entry points that run the pipeline.  *)
(*                                                                         *)
(* Strings are sequences of one-character strings, so that strip, lower,   *)
(* the regular expressions, UUID parsing and percent-encoding are computed *)
(* character by character as the code computes them.                       *)
(***************************************************************************)
EXTENDS Integers, Sequences, FiniteSets, TLC

(***************************************************************************)
(* Characters                                                              *)
(***************************************************************************)
Digits == {"0", "1", "2", "3", "4", "5", "6", "7", "8", "9"}

UpperSeq == <<"A", "B", "C", "D", "E", "F", "G", "H", "I", "J", "K", "L", "M",
              "N", "O", "P", "Q", "R", "S", "T", "U", "V", "W", "X", "Y", "Z">>

LowerSeq == <<"a", "b", "c", "d", "e", "f", "g", "h", "i", "j", "k", "l", "m",
              "n", "o", "p", "q", "r", "s", "t", "u", "v", "w", "x", "y", "z">>

UpperAlpha == {UpperSeq[i] : i \in 1..Len(UpperSeq)}

LowerAlpha == {LowerSeq[i] : i \in 1..Len(LowerSeq)}

\* [0-9a-fA-F]
HexChars == Digits \cup {"a", "b", "c", "d", "e", "f"} \cup {"A", "B", "C", "D", "E", "F"}

\* [A-Za-z0-9_-]
B64Chars == UpperAlpha \cup LowerAlpha \cup Digits \cup {"_", "-"}

\* what str.strip() removes and what \s matches
Whitespace == {" ", "\t", "\n", "\r"}

\* the characters urllib.parse.quote never encodes
Unreserved == UpperAlpha \cup LowerAlpha \cup Digits \cup {"_", ".", "-", "~"}

Rep(c, n) == [i \in 1..n |-> c]

(***************************************************************************)
(* str methods                                                             *)
(***************************************************************************)
RECURSIVE LStripChars(_, _)
LStripChars(s, cs) ==
    IF Len(s) > 0 /\ Head(s) \in cs THEN LStripChars(Tail(s), cs) ELSE s

RECURSIVE RStripChars(_, _)
RStripChars(s, cs) ==
    IF Len(s) > 0 /\ s[Len(s)] \in cs
    THEN RStripChars(SubSeq(s, 1, Len(s) - 1), cs)
    ELSE s

\* s.strip(chars)
StripChars(s, cs) == RStripChars(LStripChars(s, cs), cs)

\* s.strip()
Strip(s) == StripChars(s, Whitespace)

LowerChar(c) ==
    IF c \in UpperAlpha
    THEN LowerSeq[CHOOSE i \in 1..Len(UpperSeq) : UpperSeq[i] = c]
    ELSE c

\* s.lower()
Lower(s) == [i \in 1..Len(s) |-> LowerChar(s[i])]

StartsWith(s, p) == Len(s) >= Len(p) /\ SubSeq(s, 1, Len(p)) = p

\* s.replace(p, ""): the occurrences of p, left to right, not overlapping
RECURSIVE RemoveAll(_, _)
RemoveAll(s, p) ==
    IF Len(s) = 0 THEN s
    ELSE IF StartsWith(s, p) THEN RemoveAll(SubSeq(s, Len(p) + 1, Len(s)), p)
    ELSE <<Head(s)>> \o RemoveAll(Tail(s), p)

\* what '$' leaves out of a match: one newline at the very end
DropFinalNewline(s) ==
    IF Len(s) > 0 /\ s[Len(s)] = "\n" THEN SubSeq(s, 1, Len(s) - 1) ELSE s

AllIn(s, cs) == \A i \in 1..Len(s) : s[i] \in cs

(***************************************************************************)
(* Regular expressions and format validators                               *)
(***************************************************************************)
\* the {32,} of _B64URL_RE
B64MinLen == 32

PortMin == 1

PortMax == 65535

\* _B64URL_RE.match(s): ^[A-Za-z0-9_-]{32,}$
B64UrlMatch(s) ==
    LET t == DropFinalNewline(s)
    IN  Len(t) >= B64MinLen /\ AllIn(t, B64Chars)

\* _HEX_RE.match(s): ^[0-9a-fA-F]+$
HexMatch(s) ==
    LET t == DropFinalNewline(s)
    IN  Len(t) >= 1 /\ AllIn(t, HexChars)

\* int(s, 16) of the standard library: surrounding whitespace, one sign, a 0x
\* prefix and single underscores between digits are all accepted
IntBase16Parses(s) ==
    LET s1 == Strip(s)
        s2 == IF Len(s1) > 0 /\ s1[1] \in {"+", "-"} THEN Tail(s1) ELSE s1
        hasPrefix == Len(s2) >= 2 /\ s2[1] = "0" /\ s2[2] \in {"x", "X"}
        s3 == IF hasPrefix THEN SubSeq(s2, 3, Len(s2)) ELSE s2
        s4 == IF hasPrefix /\ Len(s3) > 0 /\ s3[1] = "_" THEN Tail(s3) ELSE s3
    IN  /\ Len(s4) > 0
        /\ s4[1] \in HexChars
        /\ s4[Len(s4)] \in HexChars
        /\ AllIn(s4, HexChars \cup {"_"})
        /\ \A i \in 1..(Len(s4) - 1) : ~(s4[i] = "_" /\ s4[i + 1] = "_")

\* the hex digits uuid.UUID(u) hands to int(): "urn:" and "uuid:" removed,
\* braces stripped from both ends, every hyphen removed
UUIDHexOf(u) ==
    LET h1 == RemoveAll(RemoveAll(u, <<"u", "r", "n", ":">>), <<"u", "u", "i", "d", ":">>)
    IN  RemoveAll(StripChars(h1, {"{", "}"}), <<"-">>)

\* uuid.UUID(u) does not raise
UUIDParses(u) == Len(UUIDHexOf(u)) = 32 /\ IntBase16Parses(UUIDHexOf(u))

(***************************************************************************)
(* Errors: the UserError raised, by the message it carries                 *)
(***************************************************************************)
Err(kind, idx, where, detail) ==
    [kind |-> kind, idx |-> idx, where |-> where, detail |-> detail]

NoErr == Err("none", -1, "", <<>>)

(***************************************************************************)
(* JSON values as json.loads returns them                                  *)
(***************************************************************************)
JNull == [t |-> "null", s |-> <<>>, n |-> 0, l |-> <<>>, d |-> <<>>]

JStr(s) == [t |-> "str", s |-> s, n |-> 0, l |-> <<>>, d |-> <<>>]

JInt(n) == [t |-> "int", s |-> <<>>, n |-> n, l |-> <<>>, d |-> <<>>]

\* a bool is an int to isinstance: n is its integer value
JBool(b) == [t |-> "bool", s |-> <<>>, n |-> IF b THEN 1 ELSE 0, l |-> <<>>, d |-> <<>>]

JList(l) == [t |-> "list", s |-> <<>>, n |-> 0, l |-> l, d |-> <<>>]

\* an object: its members <<key, value>> in document order
JDict(d) == [t |-> "dict", s |-> <<>>, n |-> 0, l |-> <<>>, d |-> d]

\* v.get(key): the last member of that key, None when there is none
Get(v, key) ==
    LET at == {i \in 1..Len(v.d) : v.d[i][1] = key}
    IN  IF at = {} THEN JNull
        ELSE v.d[CHOOSE i \in at : \A j \in at : j <= i][2]

(***************************************************************************)
(* Typed accessors                                                         *)
(***************************************************************************)
IsDict(v) == v.t = "dict"

IsList(v) == v.t = "list"

\* _expect_str passes: a str that is not empty once stripped
IsNonEmptyStr(v) == v.t = "str" /\ Strip(v.s) # <<>>

\* _expect_str returning its argument as it came
ExpectStrValueRaw(v) == v.s

\* what _expect_str returns
ExpectStrValue(v) == Strip(v.s)

\* _expect_int passes: an int that is not a bool
IsInt(v) == v.t = "int"

(***************************************************************************)
(* RealityInbound and _select_inbound                                      *)
(***************************************************************************)
VLESS == <<"v", "l", "e", "s", "s">>

REALITY == <<"r", "e", "a", "l", "i", "t", "y">>

\* Optional[str]
None == [some |-> FALSE, s |-> <<>>]

Some(s) == [some |-> TRUE, s |-> s]

RealityInbound(uuid, flow, port, network, sni, short_id, private_key) ==
    [uuid |-> uuid, flow |-> flow, port |-> port, network |-> network,
     sni |-> sni, short_id |-> short_id, private_key |-> private_key]

NoInbound == RealityInbound(<<>>, None, 0, <<>>, <<>>, <<>>, <<>>)

Raised(e) == [ok |-> FALSE, rec |-> NoInbound, err |-> e]

Returned(r) == [ok |-> TRUE, rec |-> r, err |-> NoErr]

\* _validate_uuid(u) raises
UuidError(u) == ~UUIDParses(u)

\* _validate_short_id(sid): the error it raises, NoErr when it returns
ShortIdError(sid) ==
    IF ~HexMatch(sid) THEN Err("shortid_not_hex", -1, "", sid)
    ELSE IF Len(sid) % 2 # 0 THEN Err("shortid_odd_length", -1, "", sid)
    ELSE NoErr

\* _validate_private_key(pk) raises
PrivateKeyError(pk) == ~B64UrlMatch(pk)

\* the protocol test made on the stripped value, as the security test is
ProtocolIsVlessStripped(protocol) == protocol.t = "str" /\ Strip(protocol.s) = VLESS

\* the protocol test of parse_one: a plain comparison with the literal
ProtocolIsVless(protocol) == protocol.t = "str" /\ protocol.s = VLESS

\* the security test of parse_one, on what _expect_str returned
SecurityIsReality(security) == security = REALITY

\* parse_one with each format check made next to the shape check of its field, the
\* check of the client id last
ParseOneFormatWithShape(idx, ib) ==
    LET protocol == Get(ib, "protocol")
        port == Get(ib, "port")
        settings == Get(ib, "settings")
        clients == Get(settings, "clients")
        c0 == clients.l[1]
        id == Get(c0, "id")
        uuid == ExpectStrValue(id)
        flowAny == Get(c0, "flow")
        flow == IF flowAny.t = "null" THEN None ELSE Some(ExpectStrValue(flowAny))
        stream == Get(ib, "streamSettings")
        networkAny == Get(stream, "network")
        network == ExpectStrValue(networkAny)
        securityAny == Get(stream, "security")
        security == ExpectStrValue(securityAny)
        reality == Get(stream, "realitySettings")
        server_names == Get(reality, "serverNames")
        sniAny == server_names.l[1]
        sni == ExpectStrValue(sniAny)
        short_ids == Get(reality, "shortIds")
        sidAny == short_ids.l[1]
        short_id == ExpectStrValue(sidAny)
        pkAny == Get(reality, "privateKey")
        private_key == ExpectStrValue(pkAny)
    IN  IF ~IsDict(ib) THEN Raised(Err("expected_object", idx, "inbounds[]", <<>>))
        ELSE IF ~ProtocolIsVless(protocol)
            THEN Raised(Err("protocol_not_vless", idx, "protocol", protocol.s))
        ELSE IF ~IsInt(port) THEN Raised(Err("expected_integer", idx, "port", <<>>))
        ELSE IF ~(PortMin <= port.n /\ port.n <= PortMax)
            THEN Raised(Err("port_out_of_range", idx, "port", <<>>))
        ELSE IF ~IsDict(settings) THEN Raised(Err("expected_object", idx, "settings", <<>>))
        ELSE IF ~IsList(clients)
            THEN Raised(Err("expected_array", idx, "settings.clients", <<>>))
        ELSE IF Len(clients.l) = 0
            THEN Raised(Err("clients_empty", idx, "settings.clients", <<>>))
        ELSE IF ~IsDict(c0)
            THEN Raised(Err("expected_object", idx, "settings.clients[0]", <<>>))
        ELSE IF ~IsNonEmptyStr(id)
            THEN Raised(Err("expected_string", idx, "settings.clients[0].id", <<>>))
        ELSE IF flowAny.t # "null" /\ ~IsNonEmptyStr(flowAny)
            THEN Raised(Err("expected_string", idx, "settings.clients[0].flow", <<>>))
        ELSE IF ~IsDict(stream)
            THEN Raised(Err("expected_object", idx, "streamSettings", <<>>))
        ELSE IF ~IsNonEmptyStr(networkAny)
            THEN Raised(Err("expected_string", idx, "streamSettings.network", <<>>))
        ELSE IF ~IsNonEmptyStr(securityAny)
            THEN Raised(Err("expected_string", idx, "streamSettings.security", <<>>))
        ELSE IF ~SecurityIsReality(security)
            THEN Raised(Err("security_not_reality", idx, "streamSettings.security", security))
        ELSE IF ~IsDict(reality)
            THEN Raised(Err("expected_object", idx, "streamSettings.realitySettings", <<>>))
        ELSE IF ~IsList(server_names)
            THEN Raised(Err("expected_array", idx, "realitySettings.serverNames", <<>>))
        ELSE IF Len(server_names.l) = 0
            THEN Raised(Err("serverNames_empty", idx, "realitySettings.serverNames", <<>>))
        ELSE IF ~IsNonEmptyStr(sniAny)
            THEN Raised(Err("expected_string", idx, "realitySettings.serverNames[0]", <<>>))
        ELSE IF ~IsList(short_ids)
            THEN Raised(Err("expected_array", idx, "realitySettings.shortIds", <<>>))
        ELSE IF Len(short_ids.l) = 0
            THEN Raised(Err("shortIds_empty", idx, "realitySettings.shortIds", <<>>))
        ELSE IF ~IsNonEmptyStr(sidAny)
            THEN Raised(Err("expected_string", idx, "realitySettings.shortIds[0]", <<>>))
        ELSE IF ShortIdError(short_id) # NoErr THEN Raised(ShortIdError(short_id))
        ELSE IF ~IsNonEmptyStr(pkAny)
            THEN Raised(Err("expected_string", idx, "realitySettings.privateKey", <<>>))
        ELSE IF PrivateKeyError(private_key)
            THEN Raised(Err("privatekey_format", -1, "", private_key))
        ELSE IF UuidError(uuid) THEN Raised(Err("invalid_uuid", -1, "", uuid))
        ELSE Returned(RealityInbound(uuid, flow, port.n, network, sni,
                                     Lower(short_id), private_key))

\* parse_one(idx, inbound_any): the checks in the order the code makes them
ParseOne(idx, ib) ==
    LET protocol == Get(ib, "protocol")
        port == Get(ib, "port")
        settings == Get(ib, "settings")
        clients == Get(settings, "clients")
        c0 == clients.l[1]
        id == Get(c0, "id")
        uuid == ExpectStrValue(id)
        flowAny == Get(c0, "flow")
        flow == IF flowAny.t = "null" THEN None ELSE Some(ExpectStrValue(flowAny))
        stream == Get(ib, "streamSettings")
        networkAny == Get(stream, "network")
        network == ExpectStrValue(networkAny)
        securityAny == Get(stream, "security")
        security == ExpectStrValue(securityAny)
        reality == Get(stream, "realitySettings")
        server_names == Get(reality, "serverNames")
        sniAny == server_names.l[1]
        sni == ExpectStrValue(sniAny)
        short_ids == Get(reality, "shortIds")
        sidAny == short_ids.l[1]
        short_id == ExpectStrValue(sidAny)
        pkAny == Get(reality, "privateKey")
        private_key == ExpectStrValue(pkAny)
    IN  IF ~IsDict(ib) THEN Raised(Err("expected_object", idx, "inbounds[]", <<>>))
        ELSE IF ~ProtocolIsVless(protocol)
            THEN Raised(Err("protocol_not_vless", idx, "protocol", protocol.s))
        ELSE IF ~IsInt(port) THEN Raised(Err("expected_integer", idx, "port", <<>>))
        ELSE IF ~(PortMin <= port.n /\ port.n <= PortMax)
            THEN Raised(Err("port_out_of_range", idx, "port", <<>>))
        ELSE IF ~IsDict(settings) THEN Raised(Err("expected_object", idx, "settings", <<>>))
        ELSE IF ~IsList(clients)
            THEN Raised(Err("expected_array", idx, "settings.clients", <<>>))
        ELSE IF Len(clients.l) = 0
            THEN Raised(Err("clients_empty", idx, "settings.clients", <<>>))
        ELSE IF ~IsDict(c0)
            THEN Raised(Err("expected_object", idx, "settings.clients[0]", <<>>))
        ELSE IF ~IsNonEmptyStr(id)
            THEN Raised(Err("expected_string", idx, "settings.clients[0].id", <<>>))
        ELSE IF flowAny.t # "null" /\ ~IsNonEmptyStr(flowAny)
            THEN Raised(Err("expected_string", idx, "settings.clients[0].flow", <<>>))
        ELSE IF ~IsDict(stream)
            THEN Raised(Err("expected_object", idx, "streamSettings", <<>>))
        ELSE IF ~IsNonEmptyStr(networkAny)
            THEN Raised(Err("expected_string", idx, "streamSettings.network", <<>>))
        ELSE IF ~IsNonEmptyStr(securityAny)
            THEN Raised(Err("expected_string", idx, "streamSettings.security", <<>>))
        ELSE IF ~SecurityIsReality(security)
            THEN Raised(Err("security_not_reality", idx, "streamSettings.security", security))
        ELSE IF ~IsDict(reality)
            THEN Raised(Err("expected_object", idx, "streamSettings.realitySettings", <<>>))
        ELSE IF ~IsList(server_names)
            THEN Raised(Err("expected_array", idx, "realitySettings.serverNames", <<>>))
        ELSE IF Len(server_names.l) = 0
            THEN Raised(Err("serverNames_empty", idx, "realitySettings.serverNames", <<>>))
        ELSE IF ~IsNonEmptyStr(sniAny)
            THEN Raised(Err("expected_string", idx, "realitySettings.serverNames[0]", <<>>))
        ELSE IF ~IsList(short_ids)
            THEN Raised(Err("expected_array", idx, "realitySettings.shortIds", <<>>))
        ELSE IF Len(short_ids.l) = 0
            THEN Raised(Err("shortIds_empty", idx, "realitySettings.shortIds", <<>>))
        ELSE IF ~IsNonEmptyStr(sidAny)
            THEN Raised(Err("expected_string", idx, "realitySettings.shortIds[0]", <<>>))
        ELSE IF ~IsNonEmptyStr(pkAny)
            THEN Raised(Err("expected_string", idx, "realitySettings.privateKey", <<>>))
        ELSE IF UuidError(uuid) THEN Raised(Err("invalid_uuid", -1, "", uuid))
        ELSE IF ShortIdError(short_id) # NoErr THEN Raised(ShortIdError(short_id))
        ELSE IF PrivateKeyError(private_key)
            THEN Raised(Err("privatekey_format", -1, "", private_key))
        ELSE Returned(RealityInbound(uuid, flow, port.n, network, sni,
                                     Lower(short_id), private_key))

\* Optional[int]: --inbound-index
NoIndex == [given |-> FALSE, i |-> 0]

Index(i) == [given |-> TRUE, i |-> i]

\* what _select_inbound ends with: the record returned, or the error raised and,
\* for the aggregate error, the error its message embeds
Selected(r) == [ok |-> TRUE, rec |-> r, err |-> NoErr, last |-> NoErr]

SelectFailed(e, last) == [ok |-> FALSE, rec |-> NoInbound, err |-> e, last |-> last]

\* the loop without its try: the first failure leaves the function
RECURSIVE ScanInboundsRaiseFirst(_, _, _)
ScanInboundsRaiseFirst(inbounds, k, last) ==
    IF k > Len(inbounds)
    THEN SelectFailed(Err("no_matching_inbound", -1, "", <<>>), last)
    ELSE LET r == ParseOne(k - 1, inbounds[k])
         IN  IF r.ok THEN Selected(r.rec) ELSE SelectFailed(r.err, NoErr)

\* the loop keeping the first error it saw instead of the last
RECURSIVE ScanInboundsFirstError(_, _, _)
ScanInboundsFirstError(inbounds, k, last) ==
    IF k > Len(inbounds)
    THEN SelectFailed(Err("no_matching_inbound", -1, "", <<>>), last)
    ELSE LET r == ParseOne(k - 1, inbounds[k])
         IN  IF r.ok THEN Selected(r.rec)
             ELSE ScanInboundsFirstError(inbounds, k + 1, IF last = NoErr THEN r.err ELSE last)

RECURSIVE ScanInbounds(_, _, _)
\* the loop of the auto-select mode, from list position k with last_err = last
ScanInbounds(inbounds, k, last) ==
    IF k > Len(inbounds)
    THEN SelectFailed(Err("no_matching_inbound", -1, "", <<>>), last)
    ELSE LET r == ParseOne(k - 1, inbounds[k])
         IN  IF r.ok THEN Selected(r.rec)
             ELSE ScanInbounds(inbounds, k + 1, r.err)

\* _select_inbound going on to the scan when the candidate at the index fails
SelectInboundFallback(cfg, inbound_index) ==
    LET inboundsAny == Get(cfg, "inbounds")
        inbounds == inboundsAny.l
    IN  IF ~IsList(inboundsAny)
        THEN SelectFailed(Err("expected_array", -1, "inbounds", <<>>), NoErr)
        ELSE IF Len(inbounds) = 0
        THEN SelectFailed(Err("no_inbounds", -1, "", <<>>), NoErr)
        ELSE IF inbound_index.given
        THEN IF inbound_index.i < 0 \/ inbound_index.i >= Len(inbounds)
             THEN SelectFailed(Err("index_out_of_range", inbound_index.i, "", <<>>), NoErr)
             ELSE LET r == ParseOne(inbound_index.i, inbounds[inbound_index.i + 1])
                  IN  IF r.ok THEN Selected(r.rec) ELSE ScanInbounds(inbounds, 1, NoErr)
        ELSE ScanInbounds(inbounds, 1, NoErr)

\* _select_inbound(cfg, inbound_index)
SelectInbound(cfg, inbound_index) ==
    LET inboundsAny == Get(cfg, "inbounds")
        inbounds == inboundsAny.l
    IN  IF ~IsList(inboundsAny)
        THEN SelectFailed(Err("expected_array", -1, "inbounds", <<>>), NoErr)
        ELSE IF Len(inbounds) = 0
        THEN SelectFailed(Err("no_inbounds", -1, "", <<>>), NoErr)
        ELSE IF inbound_index.given
        THEN IF inbound_index.i < 0 \/ inbound_index.i >= Len(inbounds)
             THEN SelectFailed(Err("index_out_of_range", inbound_index.i, "", <<>>), NoErr)
             ELSE LET r == ParseOne(inbound_index.i, inbounds[inbound_index.i + 1])
                  IN  IF r.ok THEN Selected(r.rec) ELSE SelectFailed(r.err, NoErr)
        ELSE ScanInbounds(inbounds, 1, NoErr)

(***************************************************************************)
(* Input documents                                                         *)
(***************************************************************************)
\* the longest inbounds list drawn in full from ScanPool
MaxInbounds == 2

Padded(s) == <<" ">> \o s \o <<"\n">>

UuidOf(c) ==
    Rep(c, 8) \o <<"-">> \o Rep(c, 4) \o <<"-">> \o Rep(c, 4) \o <<"-">> \o Rep(c, 4)
        \o <<"-">> \o Rep(c, 12)

UuidCanon == UuidOf("1")

UuidUpper == UuidOf("F")

Uuid32 == Rep("1", 32)

UuidBraced == <<"{">> \o UuidCanon \o <<"}">>

UuidUrn == <<"u", "r", "n", ":", "u", "u", "i", "d", ":">> \o UuidCanon

UuidNotHex == UuidOf("g")

UuidShort == Rep("1", 8)

Key32 == Rep("a", 32)

Key33 == Rep("Z", 31) \o <<"_", "-">>

Key31 == Rep("a", 31)

KeyBadChar == Rep("a", 31) \o <<"+">>

Tcp == <<"t", "c", "p">>

Grpc == <<"g", "r", "p", "c">>

Vision == <<"x", "t", "l", "s">>

SniA == <<"a", ".", "i", "o">>

SniB == <<"b", ".", "i", "o">>

Client(id, flow) ==
    JDict(IF flow.t = "null" THEN << <<"id", id>> >> ELSE << <<"id", id>>, <<"flow", flow>> >>)

Reality(serverNames, shortIds, privateKey) ==
    JDict(<< <<"serverNames", serverNames>>, <<"shortIds", shortIds>>,
             <<"privateKey", privateKey>> >>)

Inbound(protocol, port, clients, network, security, reality) ==
    JDict(<< <<"protocol", protocol>>, <<"port", port>>,
             <<"settings", JDict(<< <<"clients", clients>> >>)>>,
             <<"streamSettings",
               JDict(<< <<"network", network>>, <<"security", security>>,
                        <<"realitySettings", reality>> >>)>> >>)

\* a candidate with one client, one server name and one short id, all strings
Plain(protocol, port, id, flow, network, security, sni, sid, pk) ==
    Inbound(JStr(protocol), JInt(port), JList(<<Client(JStr(id), flow)>>), JStr(network),
            JStr(security), Reality(JList(<<JStr(sni)>>), JList(<<JStr(sid)>>), JStr(pk)))

IbGood == Plain(VLESS, 443, UuidCanon, JNull, Tcp, REALITY, SniA, <<"A", "B", "1", "2">>, Key32)

IbGoodFlow ==
    Plain(VLESS, 8443, UuidUpper, JStr(Vision), Grpc, REALITY, SniB, <<"0", "0", "f", "F">>, Key33)

IbPadded ==
    Plain(VLESS, 65535, Padded(UuidCanon), JStr(Padded(Vision)), Padded(Tcp), Padded(REALITY),
          Padded(SniA), Padded(<<"c", "D">>), Padded(Key32))

IbVmess == Plain(<<"v", "m", "e", "s", "s">>, 443, UuidCanon, JNull, Tcp, REALITY, SniA, <<"a", "b">>, Key32)

IbProtoPadded == Plain(Padded(VLESS), 443, UuidCanon, JNull, Tcp, REALITY, SniA, <<"a", "b">>, Key32)

IbProtoInt ==
    Inbound(JInt(1), JInt(443), JList(<<Client(JStr(UuidCanon), JNull)>>), JStr(Tcp), JStr(REALITY),
            Reality(JList(<<JStr(SniA)>>), JList(<<JStr(<<"a", "b">>)>>), JStr(Key32)))

IbTls == Plain(VLESS, 443, UuidCanon, JNull, Tcp, <<"t", "l", "s">>, SniA, <<"a", "b">>, Key32)

IbSecInt ==
    Inbound(JStr(VLESS), JInt(443), JList(<<Client(JStr(UuidCanon), JNull)>>), JStr(Tcp), JInt(1),
            Reality(JList(<<JStr(SniA)>>), JList(<<JStr(<<"a", "b">>)>>), JStr(Key32)))

IbPortZero == Plain(VLESS, 0, UuidCanon, JNull, Tcp, REALITY, SniA, <<"a", "b">>, Key32)

IbPortBig == Plain(VLESS, 65536, UuidCanon, JNull, Tcp, REALITY, SniA, <<"a", "b">>, Key32)

IbPortBool ==
    Inbound(JStr(VLESS), JBool(TRUE), JList(<<Client(JStr(UuidCanon), JNull)>>), JStr(Tcp),
            JStr(REALITY), Reality(JList(<<JStr(SniA)>>), JList(<<JStr(<<"a", "b">>)>>), JStr(Key32)))

IbSidOdd == Plain(VLESS, 443, UuidCanon, JNull, Tcp, REALITY, SniA, <<"a", "b", "1">>, Key32)

IbSidNotHex == Plain(VLESS, 443, UuidCanon, JNull, Tcp, REALITY, SniA, <<"z", "z">>, Key32)

IbSidOddUuidBad == Plain(VLESS, 443, UuidShort, JNull, Tcp, REALITY, SniA, <<"a", "b", "1">>, Key32)

IbUuid32 == Plain(VLESS, 443, Uuid32, JNull, Tcp, REALITY, SniA, <<"a", "b">>, Key32)

IbUuidBraced == Plain(VLESS, 443, UuidBraced, JNull, Tcp, REALITY, SniA, <<"a", "b">>, Key32)

IbUuidUrn == Plain(VLESS, 443, UuidUrn, JNull, Tcp, REALITY, SniA, <<"a", "b">>, Key32)

IbUuidNotHex == Plain(VLESS, 443, UuidNotHex, JNull, Tcp, REALITY, SniA, <<"a", "b">>, Key32)

IbUuidShort == Plain(VLESS, 443, UuidShort, JNull, Tcp, REALITY, SniA, <<"a", "b">>, Key32)

IbKeyShort == Plain(VLESS, 443, UuidCanon, JNull, Tcp, REALITY, SniA, <<"a", "b">>, Key31)

IbKeyBadChar == Plain(VLESS, 443, UuidCanon, JNull, Tcp, REALITY, SniA, <<"a", "b">>, KeyBadChar)

IbFlowEmpty == Plain(VLESS, 443, UuidCanon, JStr(<<" ">>), Tcp, REALITY, SniA, <<"a", "b">>, Key32)

IbFlowInt == Plain(VLESS, 443, UuidCanon, JInt(1), Tcp, REALITY, SniA, <<"a", "b">>, Key32)

IbNoClients ==
    Inbound(JStr(VLESS), JInt(443), JList(<<>>), JStr(Tcp), JStr(REALITY),
            Reality(JList(<<JStr(SniA)>>), JList(<<JStr(<<"a", "b">>)>>), JStr(Key32)))

IbNoServerNames ==
    Inbound(JStr(VLESS), JInt(443), JList(<<Client(JStr(UuidCanon), JNull)>>), JStr(Tcp),
            JStr(REALITY), Reality(JList(<<>>), JList(<<JStr(<<"a", "b">>)>>), JStr(Key32)))

IbNoReality ==
    Inbound(JStr(VLESS), JInt(443), JList(<<Client(JStr(UuidCanon), JNull)>>), JStr(Tcp),
            JStr(REALITY), JNull)

IbNotObject == JStr(VLESS)

\* the candidates the lists of two and more are drawn from
ScanPool ==
    <<IbGood, IbGoodFlow, IbPadded, IbVmess, IbProtoPadded, IbSidOdd, IbUuidShort, IbNotObject>>

\* the candidates drawn as a list of one
SinglePool ==
    <<IbProtoInt, IbTls, IbSecInt, IbPortZero, IbPortBig, IbPortBool,
      IbSidNotHex, IbSidOddUuidBad, IbUuid32, IbUuidBraced, IbUuidUrn, IbUuidNotHex,
      IbKeyShort, IbKeyBadChar, IbFlowEmpty, IbFlowInt, IbNoClients, IbNoServerNames,
      IbNoReality,
      Plain(VLESS, 443, UuidCanon, JNull, Tcp, REALITY, SniA, <<"a", "b", "1">>, <<" ">>),
      Plain(VLESS, 443, UuidShort, JNull, Tcp, REALITY, SniA, <<"a", "b">>, Key31),
      Plain(VLESS, 0, UuidShort, JNull, Tcp, <<"t", "l", "s">>, SniA, <<"a", "b", "1">>, Key31)>>

\* the index sequences of length n over 1..m
RECURSIVE IndexSeqs(_, _)
IndexSeqs(n, m) ==
    IF n = 0 THEN {<<>>}
    ELSE {<<i>> \o t : i \in 1..m, t \in IndexSeqs(n - 1, m)}

\* how an inbounds list is drawn: positions in ScanPool, or one position in SinglePool
ListChoices ==
    {[pool |-> "scan", at |-> q] :
        q \in UNION {IndexSeqs(n, Len(ScanPool)) : n \in 0..MaxInbounds}}
    \cup {[pool |-> "single", at |-> <<i>>] : i \in 1..Len(SinglePool)}

ListOf(c) ==
    [k \in 1..Len(c.at) |-> IF c.pool = "scan" THEN ScanPool[c.at[k]] ELSE SinglePool[c.at[k]]]

\* the root object of a config with that inbounds list
ConfigOf(l) == JDict(<< <<"inbounds", JList(l)>> >>)

\* roots whose "inbounds" is missing or is no array
CfgNoInbounds == JDict(<< <<"log", JNull>> >>)

CfgInboundsNotList == JDict(<< <<"inbounds", JStr(VLESS)>> >>)

\* the values --inbound-index takes
IndexChoices == {NoIndex} \cup {Index(i) : i \in (0 - 1)..MaxInbounds}

(***************************************************************************)
(* compute_public_key_from_private                                         *)
(***************************************************************************)
PasswordLabel == <<"P", "a", "s", "s", "w", "o", "r", "d", ":">>

PublicKeyLabel == <<"P", "u", "b", "l", "i", "c", "K", "e", "y", ":">>

\* '^' in MULTILINE mode: the start of the text and the place after each newline
AtLineStart(out, p) == p = 1 \/ out[p - 1] = "\n"

\* (?:Password|PublicKey): at p: the length of the label there, 0 when there is none
LabelLenAt(out, p) ==
    LET rest == SubSeq(out, p, Len(out))
    IN  IF StartsWith(rest, PasswordLabel) THEN Len(PasswordLabel)
        ELSE IF StartsWith(rest, PublicKeyLabel) THEN Len(PublicKeyLabel)
        ELSE 0

\* the first place at or after q that holds no whitespace, Len(out) + 1 when none does
RECURSIVE SkipSpace(_, _)
SkipSpace(out, q) ==
    IF q <= Len(out) /\ out[q] \in Whitespace THEN SkipSpace(out, q + 1) ELSE q

\* the first place at or after q that holds whitespace, Len(out) + 1 when none does
RECURSIVE SkipNonSpace(_, _)
SkipNonSpace(out, q) ==
    IF q <= Len(out) /\ out[q] \notin Whitespace THEN SkipNonSpace(out, q + 1) ELSE q

\* \s*$ from e on: some run of whitespace from e ends at the end of the text or
\* right before a newline
TailMatches(out, e) ==
    \E k \in e..SkipSpace(out, e) : k = Len(out) + 1 \/ out[k] = "\n"

\* the pattern ^(?:Password|PublicKey):\s*(\S+)\s*$ matched from p: \s* runs over
\* all the whitespace (newlines too), (\S+) over all that follows up to whitespace
MatchAt(out, p) ==
    LET n == LabelLenAt(out, p)
        ts == SkipSpace(out, p + n)
        te == SkipNonSpace(out, ts)
    IN  [hit |-> AtLineStart(out, p) /\ n > 0 /\ te > ts /\ TailMatches(out, te),
         group1 |-> SubSeq(out, ts, te - 1)]

\* re.search(pattern, out, flags=re.MULTILINE): the leftmost match
SearchPublicKey(out) ==
    LET hits == {p \in 1..Len(out) : MatchAt(out, p).hit}
    IN  IF hits = {} THEN [hit |-> FALSE, group1 |-> <<>>]
        ELSE MatchAt(out, CHOOSE p \in hits : \A q \in hits : p <= q)

\* what one subprocess.run of the xray binary gives: FileNotFoundError, or the
\* exit status and the merged output
NotFound == [found |-> FALSE, returncode |-> 0, stdout |-> <<>>]

Exited(rc, text) == [found |-> TRUE, returncode |-> rc, stdout |-> text]

KeyFailed(e, n) == [ok |-> FALSE, pub |-> <<>>, err |-> e, spawned |-> n]

KeyReturned(pub, n) == [ok |-> TRUE, pub |-> pub, err |-> NoErr, spawned |-> n]

\* compute_public_key_from_private(private_key), procs being what the first, the
\* second, ... spawn of the binary would give: the code spawns it once
ComputePublicKey(procs) ==
    LET proc == procs[1]
        out == Strip(proc.stdout)
        m == SearchPublicKey(out)
        pub == Strip(m.group1)
    IN  IF ~proc.found THEN KeyFailed(Err("xray_not_found", -1, "", <<>>), 1)
        ELSE IF proc.returncode # 0 THEN KeyFailed(Err("xray_failed", proc.returncode, "", out), 1)
        ELSE IF ~m.hit THEN KeyFailed(Err("parse_public_key", -1, "", out), 1)
        ELSE IF ~B64UrlMatch(pub) THEN KeyFailed(Err("publickey_format", -1, "", pub), 1)
        ELSE KeyReturned(pub, 1)

Pub32 == Rep("B", 32)

PubOld == Rep("c", 30) \o <<"_", "-", "9">>

NL == <<"\n">>

OutNew == <<"P", "r", "i", "v", "a", "t", "e", "K", "e", "y", ":", " ">> \o Key32 \o NL \o PasswordLabel \o <<" ">> \o Pub32 \o NL \o <<"H", "a", "s", "h", "3", "2", ":", " ", "x">>

OutOld == <<"P", "r", "i", "v", "a", "t", "e", "K", "e", "y", ":", " ">> \o Key32 \o NL \o PublicKeyLabel \o <<" ">> \o PubOld \o NL

OutNoLabel == <<"P", "r", "i", "v", "a", "t", "e", "K", "e", "y", ":", " ">> \o Key32 \o NL \o <<"H", "a", "s", "h", "3", "2", ":", " ", "x">>

OutShortToken == PasswordLabel \o <<" ">> \o Rep("B", 31)

OutBadToken == PasswordLabel \o <<" ">> \o Rep("B", 31) \o <<"=">>

OutNextLine == PasswordLabel \o NL \o Pub32

OutTrailing == PasswordLabel \o <<" ">> \o Pub32 \o <<" ", "x">>

OutTrailingSpace == <<" ">> \o PasswordLabel \o <<"\t">> \o Pub32 \o <<" ", "\r">> \o NL \o <<"H", "a", "s", "h", "3", "2", ":", " ", "x">>

OutIndented == <<"H", "a", "s", "h", "3", "2", ":", " ", "x">> \o NL \o <<" ">> \o PasswordLabel \o <<" ">> \o Pub32

OutMidLine == <<"x">> \o PasswordLabel \o <<" ">> \o Pub32

OutBadThenGood == PasswordLabel \o <<" ">> \o <<"!">> \o NL \o PublicKeyLabel \o <<" ">> \o Pub32

OutError == <<"e", "r", "r">>

\* what a spawn of the binary may give
XrayOutcomes ==
    <<Exited(0, OutNew), Exited(0, OutOld), NotFound, Exited(1, OutError), Exited(1, OutNew),
      Exited(0, OutNoLabel), Exited(0, OutShortToken), Exited(0, OutBadToken),
      Exited(0, OutNextLine), Exited(0, OutTrailing), Exited(0, OutTrailingSpace),
      Exited(0, OutIndented), Exited(0, OutMidLine), Exited(0, OutBadThenGood), Exited(0, <<>>)>>

\* what the first spawn gives and what a second one would, as positions in
\* XrayOutcomes: a second one would succeed, or find no binary
XrayRuns ==
    {<<i, 1>> : i \in 1..Len(XrayOutcomes)} \cup {<<i, 3>> : i \in {1, 3, 4}}

\* the outcome of the k-th spawn of runs
RunOf(r, k) == XrayOutcomes[r[k]]

RunsOf(r) == [k \in 1..Len(r) |-> RunOf(r, k)]

(***************************************************************************)
(* build_vless_link                                                        *)
(***************************************************************************)
\* the percent-encodings of the characters of the model that quote() encodes
PercentCodes ==
    <<<<" ", <<"%", "2", "0">>>>,
      <<"\n", <<"%", "0", "A">>>>,
      <<"\t", <<"%", "0", "9">>>>,
      <<"\r", <<"%", "0", "D">>>>,
      <<"!", <<"%", "2", "1">>>>,
      <<"#", <<"%", "2", "3">>>>,
      <<"%", <<"%", "2", "5">>>>,
      <<"&", <<"%", "2", "6">>>>,
      <<"+", <<"%", "2", "B">>>>,
      <<"/", <<"%", "2", "F">>>>,
      <<":", <<"%", "3", "A">>>>,
      <<"=", <<"%", "3", "D">>>>,
      <<"?", <<"%", "3", "F">>>>,
      <<"@", <<"%", "4", "0">>>>,
      <<"{", <<"%", "7", "B">>>>,
      <<"}", <<"%", "7", "D">>>>>>

\* quote(c, safe="") of one character
QuoteChar(c) ==
    IF c \in Unreserved THEN <<c>>
    ELSE PercentCodes[CHOOSE i \in 1..Len(PercentCodes) : PercentCodes[i][1] = c][2]

\* quote(s, safe="")
RECURSIVE Quote(_)
Quote(s) == IF Len(s) = 0 THEN <<>> ELSE QuoteChar(Head(s)) \o Quote(Tail(s))

DigitSeq == <<"0", "1", "2", "3", "4", "5", "6", "7", "8", "9">>

\* str(n) of an int n >= 0
RECURSIVE IntToStr(_)
IntToStr(n) ==
    IF n < 10 THEN <<DigitSeq[n + 1]>> ELSE IntToStr(n \div 10) \o <<DigitSeq[(n % 10) + 1]>>

\* the params dict with flow, when there is one, put in first
LinkParamsFlowFirst(fp, inbound, public_key) ==
    (IF inbound.flow.some /\ inbound.flow.s # <<>>
     THEN << <<<<"f", "l", "o", "w">>, inbound.flow.s>> >>
     ELSE <<>>)
    \o << <<<<"t", "y", "p", "e">>, inbound.network>>, <<<<"s", "e", "c", "u", "r", "i", "t", "y">>, REALITY>>, <<<<"s", "n", "i">>, inbound.sni>>,
          <<<<"f", "p">>, fp>>, <<<<"p", "b", "k">>, public_key>>, <<<<"s", "i", "d">>, inbound.short_id>> >>

\* the params dict, in insertion order
LinkParams(fp, inbound, public_key) ==
    << <<<<"t", "y", "p", "e">>, inbound.network>>, <<<<"s", "e", "c", "u", "r", "i", "t", "y">>, REALITY>>, <<<<"s", "n", "i">>, inbound.sni>>,
       <<<<"f", "p">>, fp>>, <<<<"p", "b", "k">>, public_key>>, <<<<"s", "i", "d">>, inbound.short_id>> >>
    \o (IF inbound.flow.some /\ inbound.flow.s # <<>>
        THEN << <<<<"f", "l", "o", "w">>, inbound.flow.s>> >>
        ELSE <<>>)

\* urlencode(params, quote_via=quote)
RECURSIVE UrlEncode(_)
UrlEncode(params) ==
    IF Len(params) = 0 THEN <<>>
    ELSE Quote(params[1][1]) \o <<"=">> \o Quote(params[1][2])
         \o (IF Len(params) > 1 THEN <<"&">> \o UrlEncode(Tail(params)) ELSE <<>>)

\* build_vless_link(server, name, fp, inbound, public_key)
BuildVlessLink(server, name, fp, inbound, public_key) ==
    <<"v", "l", "e", "s", "s", ":", "/", "/">> \o inbound.uuid \o <<"@">> \o server \o <<":">> \o IntToStr(inbound.port)
        \o <<"?">> \o UrlEncode(LinkParams(fp, inbound, public_key))
        \o <<"#">> \o Quote(name)

(***************************************************************************)
(* State                                                                   *)
(***************************************************************************)
VARIABLES
    entry,      \* the entry point run: "xray_reality_qr", "vpn_cli qr", "vpn_cli generate",
                \* or "_select_inbound" for a call of that function alone
    args,       \* the parsed command line
    pc,         \* the statement the run is at
    cfg,        \* the root object loaded from the config file
    sel,        \* what _select_inbound ended with
    key,        \* what compute_public_key_from_private ended with
    spawns,     \* spawns of the xray binary so far
    runs,       \* what the spawns of the xray binary give, the first first (see XrayRuns)
    link,       \* the link built
    stdout,     \* what was printed, in order
    stderr,     \* what was written to the error stream, in order
    png,        \* the image file: "absent", "written", "partial"
    sent,       \* the Telegram calls that succeeded, in order
    exc,        \* the exception in flight
    status,     \* the exit status, -1 while the run goes on
    keyfile,    \* the temporary SSH key file: "absent", "present", "removed"
    trace       \* the stages started, in order

vars == <<entry, args, pc, cfg, sel, key, spawns, runs, link, stdout, stderr, png, sent, exc,
          status, keyfile, trace>>

NoExc == [cls |-> "none", stage |-> ""]

XrayUserError == "xray_reality_qr.UserError"

CliUserError == "vpn_cli.UserError"

\* an exception that is no UserError of either module: OSError, URLError, HTTPError, ...
OtherError == "Exception"

NoKey == [ok |-> FALSE, pub |-> <<>>, err |-> NoErr, spawned |-> 0]

NoSel == SelectFailed(NoErr, NoErr)

Server == <<"1", ".", "2">>

Chrome == <<"c", "h", "r", "o", "m", "e">>

Names == {<<"x">>, <<"m", " ", "#", "1">>}

Args(index, dry_run, print_link, print_qr, telegram, name) ==
    [inbound_index |-> index, dry_run |-> dry_run, print_link |-> print_link,
     print_qr |-> print_qr, telegram |-> telegram, server |-> Server, name |-> name,
     fp |-> Chrome]

\* the inbounds lists the runs of the entry points load
PipelineLists ==
    <<<<>>, <<IbGood>>, <<IbGoodFlow>>, <<IbPadded>>, <<IbVmess, IbGoodFlow>>, <<IbVmess>>,
      <<IbSidOdd, IbGood>>, <<IbUuidBraced>>>>

\* what json.loads gives for the files the runs load
PipelineRoots ==
    [i \in 1..(Len(PipelineLists) + 2) |->
        IF i <= Len(PipelineLists) THEN ConfigOf(PipelineLists[i])
        ELSE IF i = Len(PipelineLists) + 1 THEN CfgNoInbounds
        ELSE JList(<<>>)]

PipelineIndexes == {NoIndex, Index(0), Index(1)}

Rest ==
    /\ sel = NoSel /\ key = NoKey /\ spawns = 0 /\ runs = <<>> /\ link = <<>>
    /\ stdout = <<>> /\ stderr = <<>> /\ png = "absent" /\ sent = <<>>
    /\ exc = NoExc /\ status = -1 /\ keyfile = "absent" /\ trace = <<>>

\* a run of one of the three entry points, its arguments parsed
Init ==
    /\ entry \in {"xray_reality_qr", "vpn_cli qr", "vpn_cli generate"}
    /\ \E i \in PipelineIndexes, d, l, q, t \in BOOLEAN, n \in Names :
          /\ entry = "vpn_cli generate" => (~d /\ ~q)
          /\ entry # "vpn_cli generate" => ~t
          /\ args = Args(i, d, l, q, t, n)
    /\ pc = IF entry = "xray_reality_qr" THEN "load" ELSE "ensure_xray"
    /\ cfg = JNull
    /\ Rest

\* a call of _select_inbound on a root object with an inbounds list, or with none
InitSelect ==
    /\ entry = "_select_inbound"
    /\ \E i \in IndexChoices : args = Args(i, FALSE, FALSE, FALSE, FALSE, <<"x">>)
    /\ \/ \E c \in ListChoices : cfg = ConfigOf(ListOf(c))
       \/ cfg \in {CfgNoInbounds, CfgInboundsNotList}
    /\ pc = "call"
    /\ Rest

(***************************************************************************)
(* Steps                                                                   *)
(***************************************************************************)
\* the try body of cmd_generate: an exception raised there runs the finally clause
InTry(stage) == entry = "vpn_cli generate" /\ stage \notin {"ensure_xray", "write_key_file"}

\* raise an exception of class cls out of stage
Raise(cls, stage) ==
    /\ exc' = [cls |-> cls, stage |-> stage]
    /\ pc' = IF InTry(stage) THEN "finally" ELSE "toplevel"

\* go on with the statement at next
Goto(next) == pc' = next /\ exc' = exc

\* _select_inbound called alone
CallSelectInbound ==
    /\ pc = "call"
    /\ sel' = SelectInbound(cfg, args.inbound_index)
    /\ pc' = "returned"
    /\ UNCHANGED <<entry, args, cfg, key, spawns, runs, link, stdout, stderr, png, sent, exc,
                   status, keyfile, trace>>

\* _ensure_xray_available(): XRAY_BIN or xray in PATH, else a download that may fail
EnsureXray ==
    /\ pc = "ensure_xray"
    /\ trace' = Append(trace, "ensure_xray")
    /\ \E o \in {"ok", "user_error", "other"} :
          IF o = "ok"
          THEN Goto(IF entry = "vpn_cli generate" THEN "write_key_file" ELSE "load")
          ELSE Raise(IF o = "user_error" THEN CliUserError ELSE OtherError, "ensure_xray")
    /\ UNCHANGED <<entry, args, cfg, sel, key, spawns, runs, link, stdout, stderr, png, sent,
                   status, keyfile>>

\* cmd_generate up to its try: the output directory, the key file written and chmod-ed
WriteKeyFile ==
    /\ pc = "write_key_file"
    /\ trace' = Append(trace, "write_key_file")
    /\ \E o \in {"ok", "mkdir_fails", "create_fails", "write_fails", "chmod_fails"} :
          /\ keyfile' = IF o \in {"mkdir_fails", "create_fails"} THEN "absent" ELSE "present"
          /\ IF o = "ok" THEN Goto("scp_download") ELSE Raise(OtherError, "write_key_file")
    /\ UNCHANGED <<entry, args, cfg, sel, key, spawns, runs, link, stdout, stderr, png, sent,
                   status>>

\* scp_download(): run() raises its UserError on a non-zero exit
ScpDownload ==
    /\ pc = "scp_download"
    /\ trace' = Append(trace, "scp_download")
    /\ \E o \in {"ok", "user_error", "other"} :
          IF o = "ok" THEN Goto("load")
          ELSE Raise(IF o = "user_error" THEN CliUserError ELSE OtherError, "scp_download")
    /\ UNCHANGED <<entry, args, cfg, sel, key, spawns, runs, link, stdout, stderr, png, sent,
                   status, keyfile>>

\* _load_json(path) and _expect_dict(cfg_any, "root")
LoadJson ==
    /\ pc = "load"
    /\ trace' = Append(trace, "load")
    /\ \E o \in {"ok", "not_found", "invalid_json", "other"} :
          IF o = "ok"
          THEN \E i \in 1..Len(PipelineRoots) :
                  /\ cfg' = PipelineRoots[i]
                  /\ IF IsDict(cfg') THEN Goto("select") ELSE Raise(XrayUserError, "load")
          ELSE /\ cfg' = cfg
               /\ Raise(IF o = "other" THEN OtherError ELSE XrayUserError, "load")
    /\ UNCHANGED <<entry, args, sel, key, spawns, runs, link, stdout, stderr, png, sent, status,
                   keyfile>>

\* inbound = _select_inbound(cfg, args.inbound_index)
Select ==
    /\ pc = "select"
    /\ trace' = Append(trace, "select")
    /\ sel' = SelectInbound(cfg, args.inbound_index)
    /\ IF sel'.ok THEN Goto("derive") ELSE Raise(XrayUserError, "select")
    /\ UNCHANGED <<entry, args, cfg, key, spawns, runs, link, stdout, stderr, png, sent, status,
                   keyfile>>

\* public_key = compute_public_key_from_private(inbound.private_key)
Derive ==
    /\ pc = "derive"
    /\ trace' = Append(trace, "derive")
    /\ runs' \in XrayRuns
    /\ key' = ComputePublicKey(RunsOf(runs'))
    /\ spawns' = spawns + key'.spawned
    /\ IF key'.ok THEN Goto("build") ELSE Raise(XrayUserError, "derive")
    /\ UNCHANGED <<entry, args, cfg, sel, link, stdout, stderr, png, sent, status, keyfile>>

\* link = build_vless_link(...); cmd_generate has no --dry-run
BuildLink ==
    /\ pc = "build"
    /\ trace' = Append(trace, "build")
    /\ link' = BuildVlessLink(args.server, args.name, args.fp, sel.rec, key.pub)
    /\ Goto(IF entry # "vpn_cli generate" /\ args.dry_run THEN "dry_run" ELSE "qr_png")
    /\ UNCHANGED <<entry, args, cfg, sel, key, spawns, runs, stdout, stderr, png, sent, status,
                   keyfile>>

\* if args.dry_run: print(link); return 0
DryRun ==
    /\ pc = "dry_run"
    /\ trace' = Append(trace, "dry_run")
    /\ stdout' = Append(stdout, link)
    /\ Goto("toplevel")
    /\ UNCHANGED <<entry, args, cfg, sel, key, spawns, runs, link, stderr, png, sent, status,
                   keyfile>>

\* qr_png with its failures swallowed: the run goes on to print and send
QrPngGoesOn ==
    /\ pc = "qr_png"
    /\ trace' = Append(trace, "qr_png")
    /\ \E o \in {"ok", "no_qrcode", "save_fails"} :
          /\ png' = IF o = "ok" THEN "written" ELSE IF o = "save_fails" THEN "partial" ELSE png
          /\ Goto("print_link")
    /\ UNCHANGED <<entry, args, cfg, sel, key, spawns, runs, link, stdout, stderr, sent, status,
                   keyfile>>

\* qr_png(link, out): the qrcode module may be missing, the save may fail
QrPng ==
    /\ pc = "qr_png"
    /\ trace' = Append(trace, "qr_png")
    /\ \E o \in {"ok", "no_qrcode", "save_fails"} :
          /\ png' = IF o = "ok" THEN "written" ELSE IF o = "save_fails" THEN "partial" ELSE png
          /\ IF o = "ok" THEN Goto("print_link")
             ELSE Raise(IF o = "no_qrcode" THEN XrayUserError ELSE OtherError, "qr_png")
    /\ UNCHANGED <<entry, args, cfg, sel, key, spawns, runs, link, stdout, stderr, sent, status,
                   keyfile>>

\* if args.print_link: print(link)
PrintLink ==
    /\ pc = "print_link"
    /\ trace' = Append(trace, "print_link")
    /\ stdout' = IF args.print_link THEN Append(stdout, link) ELSE stdout
    /\ Goto(IF entry # "vpn_cli generate" THEN "print_qr"
            ELSE IF args.telegram THEN "tg_send_message" ELSE "finally")
    /\ UNCHANGED <<entry, args, cfg, sel, key, spawns, runs, link, stderr, png, sent, status,
                   keyfile>>

\* if args.print_qr: qr_ansi(link); return 0
PrintQr ==
    /\ pc = "print_qr"
    /\ trace' = Append(trace, "print_qr")
    /\ \E o \in {"ok", "no_qrcode"} :
          /\ o = "no_qrcode" => args.print_qr
          /\ stdout' = IF args.print_qr /\ o = "ok" THEN Append(stdout, <<"Q", "R">>) ELSE stdout
          /\ IF o = "ok" THEN Goto("toplevel") ELSE Raise(XrayUserError, "print_qr")
    /\ UNCHANGED <<entry, args, cfg, sel, key, spawns, runs, link, stderr, png, sent, status,
                   keyfile>>

\* tg_send_message(): its UserError on a status of 300 and more, urlopen's own errors
TgSendMessage ==
    /\ pc = "tg_send_message"
    /\ trace' = Append(trace, "tg_send_message")
    /\ \E o \in {"ok", "user_error", "other"} :
          /\ sent' = IF o = "ok" THEN Append(sent, "message") ELSE sent
          /\ IF o = "ok" THEN Goto("tg_send_photo")
             ELSE Raise(IF o = "user_error" THEN CliUserError ELSE OtherError, "tg_send_message")
    /\ UNCHANGED <<entry, args, cfg, sel, key, spawns, runs, link, stdout, stderr, png, status,
                   keyfile>>

\* tg_send_photo(); return 0
TgSendPhoto ==
    /\ pc = "tg_send_photo"
    /\ trace' = Append(trace, "tg_send_photo")
    /\ \E o \in {"ok", "user_error", "other"} :
          /\ sent' = IF o = "ok" THEN Append(sent, "photo") ELSE sent
          /\ IF o = "ok" THEN Goto("finally")
             ELSE Raise(IF o = "user_error" THEN CliUserError ELSE OtherError, "tg_send_photo")
    /\ UNCHANGED <<entry, args, cfg, sel, key, spawns, runs, link, stdout, stderr, png, status,
                   keyfile>>

\* the finally clause of cmd_generate: unlink the key file, an error of it swallowed
Finally ==
    /\ pc = "finally"
    /\ \E o \in {"ok", "unlink_fails"} : keyfile' = IF o = "ok" THEN "removed" ELSE keyfile
    /\ pc' = "toplevel"
    /\ UNCHANGED <<entry, args, cfg, sel, key, spawns, runs, link, stdout, stderr, png, sent, exc,
                   status, trace>>

\* the UserError class the entry point's handler names
OwnUserError == IF entry = "xray_reality_qr" THEN XrayUserError ELSE CliUserError

\* the __main__ block: SystemExit(main()), "except UserError" calling die(msg, code=2),
\* and the interpreter's traceback and status 1 for any other exception
TopLevel ==
    /\ pc = "toplevel"
    /\ pc' = "exit"
    /\ IF exc.cls = "none" THEN stderr' = stderr /\ status' = 0
       ELSE IF exc.cls = OwnUserError THEN stderr' = Append(stderr, "ERROR") /\ status' = 2
       ELSE stderr' = Append(stderr, "Traceback") /\ status' = 1
    /\ UNCHANGED <<entry, args, cfg, sel, key, spawns, runs, link, stdout, png, sent, exc, keyfile,
                   trace>>

Next ==
    \/ EnsureXray
    \/ WriteKeyFile
    \/ ScpDownload
    \/ LoadJson
    \/ Select
    \/ Derive
    \/ BuildLink
    \/ DryRun
    \/ QrPng
    \/ PrintLink
    \/ PrintQr
    \/ TgSendMessage
    \/ TgSendPhoto
    \/ Finally
    \/ TopLevel

Spec == Init /\ [][Next]_vars

NextSelect == CallSelectInbound

SpecSelect == InitSelect /\ [][NextSelect]_vars

(***************************************************************************)
(* What the document declares, read off the document itself                *)
(***************************************************************************)
InboundsAny == Get(cfg, "inbounds")

Inbounds == InboundsAny.l

\* a call of _select_inbound, or the select stage of a run, has ended on an array
SelectDone == sel # NoSel /\ IsList(InboundsAny)

Auto == ~args.inbound_index.given

\* element 0 of an array, None when there is none
First(v) == IF IsList(v) /\ Len(v.l) > 0 THEN v.l[1] ELSE JNull

DeclaredProtocol(ib) == Get(ib, "protocol")

DeclaredPort(ib) == Get(ib, "port")

DeclaredClient(ib) == First(Get(Get(ib, "settings"), "clients"))

DeclaredId(ib) == Get(DeclaredClient(ib), "id")

DeclaredFlow(ib) == Get(DeclaredClient(ib), "flow")

DeclaredNetwork(ib) == Get(Get(ib, "streamSettings"), "network")

DeclaredSecurity(ib) == Get(Get(ib, "streamSettings"), "security")

DeclaredReality(ib) == Get(Get(ib, "streamSettings"), "realitySettings")

DeclaredSni(ib) == First(Get(DeclaredReality(ib), "serverNames"))

DeclaredShortId(ib) == First(Get(DeclaredReality(ib), "shortIds"))

DeclaredPrivateKey(ib) == Get(DeclaredReality(ib), "privateKey")

\* the candidate at list position k passes full validation
Passes(k) == ParseOne(k - 1, Inbounds[k]).ok

\* 8-4-4-4-12 hex digits, 36 characters
IsCanonicalUuid(u) ==
    /\ Len(u) = 36
    /\ \A i \in 1..36 : IF i \in {9, 14, 19, 24} THEN u[i] = "-" ELSE u[i] \in HexChars

IsEvenHex(x) == Len(x) > 0 /\ Len(x) % 2 = 0 /\ \A i \in 1..Len(x) : x[i] \in HexChars

IsKeyToken(x) == Len(x) >= 32 /\ \A i \in 1..Len(x) : x[i] \in B64Chars

\* the string inside the whitespace around it
Core(e) ==
    LET at == {i \in 1..Len(e) : e[i] \notin Whitespace}
    IN  IF at = {} THEN <<>>
        ELSE SubSeq(e, CHOOSE i \in at : \A j \in at : i <= j, CHOOSE i \in at : \A j \in at : j <= i)

IsText(v) == v.t = "str" /\ Core(v.s) # <<>>

\* a candidate with matching protocol and security and every required field present
\* and valid, surrounding whitespace allowed on its strings
WellFormed(ib) ==
    /\ ib.t = "dict"
    /\ DeclaredProtocol(ib) = JStr(VLESS)
    /\ DeclaredPort(ib).t = "int" /\ DeclaredPort(ib).n \in 1..65535
    /\ IsText(DeclaredId(ib)) /\ IsCanonicalUuid(Core(DeclaredId(ib).s))
    /\ DeclaredFlow(ib).t = "null" \/ IsText(DeclaredFlow(ib))
    /\ IsText(DeclaredNetwork(ib))
    /\ IsText(DeclaredSecurity(ib)) /\ Core(DeclaredSecurity(ib).s) = REALITY
    /\ IsText(DeclaredSni(ib))
    /\ IsText(DeclaredShortId(ib)) /\ IsEvenHex(Core(DeclaredShortId(ib).s))
    /\ IsText(DeclaredPrivateKey(ib)) /\ IsKeyToken(Core(DeclaredPrivateKey(ib).s))

\* the Record whose fields are the document's values as they are written, the short
\* id lowercased
DeclaredRecord(ib) ==
    RealityInbound(DeclaredId(ib).s,
                   IF DeclaredFlow(ib).t = "null" THEN None ELSE Some(DeclaredFlow(ib).s),
                   DeclaredPort(ib).n, DeclaredNetwork(ib).s, DeclaredSni(ib).s,
                   Lower(DeclaredShortId(ib).s), DeclaredPrivateKey(ib).s)

\* the Record whose string fields are the document's values without the whitespace
\* around them, the short id lowercased
StrippedRecord(ib) ==
    RealityInbound(Core(DeclaredId(ib).s),
                   IF DeclaredFlow(ib).t = "null" THEN None ELSE Some(Core(DeclaredFlow(ib).s)),
                   DeclaredPort(ib).n, Core(DeclaredNetwork(ib).s), Core(DeclaredSni(ib).s),
                   Lower(Core(DeclaredShortId(ib).s)), Core(DeclaredPrivateKey(ib).s))

(***************************************************************************)
(* C1                                                                      *)
(***************************************************************************)
\* C1: in auto-select mode, on a non-empty inbounds list with at least one candidate
\* that passes full validation, _select_inbound returns, and returns the Record of
\* the lowest-index candidate that passes; the failures before it do not surface.
C1_AutoSelectFirstValid ==
    (SelectDone /\ Auto) =>
        \A k \in 1..Len(Inbounds) :
            (Passes(k) /\ \A j \in 1..(k - 1) : ~Passes(j)) =>
                /\ sel.ok
                /\ sel.rec = ParseOne(k - 1, Inbounds[k]).rec
                /\ sel.err = NoErr /\ sel.last = NoErr

\* an auto-select call that skipped a failing first candidate and returned the second
C1_Witness ==
    /\ SelectDone /\ Auto /\ Len(Inbounds) >= 2
    /\ ~Passes(1) /\ Passes(2)
    /\ sel.ok /\ sel.rec = StrippedRecord(Inbounds[2])

(***************************************************************************)
(* C2                                                                      *)
(***************************************************************************)
\* what the call must end with when only the candidate at index i decides it
OnlyIndexDecides(i) ==
    IF i < 0 \/ i >= Len(Inbounds)
    THEN ~sel.ok /\ sel.err.kind = "index_out_of_range"
    ELSE LET r == ParseOne(i, Inbounds[i + 1])
         IN  /\ sel.ok = r.ok /\ sel.rec = r.rec /\ sel.err = r.err /\ sel.last = NoErr

\* C2 as claimed: with an explicit index, an index outside 0 <= index < length fails
\* with the range error, and otherwise the call ends as the validation of
\* inbounds[index] alone ends, whatever the other candidates hold.
C2_AsClaimed ==
    (SelectDone /\ ~Auto) => OnlyIndexDecides(args.inbound_index.i)

\* C2: with an explicit index and a non-empty inbounds list, an index outside
\* 0 <= index < length fails with the range error, and otherwise the call ends as
\* the validation of inbounds[index] alone ends, with that candidate's own error
\* when it fails; an empty list fails with the no-inbounds error before the index
\* is looked at.
C2_ExplicitIndexOnly ==
    (SelectDone /\ ~Auto) =>
        IF Len(Inbounds) = 0 THEN ~sel.ok /\ sel.err.kind = "no_inbounds"
        ELSE OnlyIndexDecides(args.inbound_index.i)

\* an explicit index on a failing candidate, beside a candidate that passes: the
\* call failed with the error of the candidate at the index
C2_Witness ==
    /\ SelectDone /\ ~Auto /\ Len(Inbounds) = 2 /\ args.inbound_index.i = 0
    /\ ~Passes(1) /\ Passes(2)
    /\ ~sel.ok /\ sel.err = ParseOne(0, Inbounds[1]).err

(***************************************************************************)
(* C3                                                                      *)
(***************************************************************************)
\* C3: in auto-select mode, on a non-empty inbounds list of which no candidate
\* passes, _select_inbound fails with the aggregate error, and the error embedded
\* in it is the one the last candidate of the list raised.
C3_AggregateEmbedsLast ==
    (SelectDone /\ Auto /\ Len(Inbounds) > 0 /\ \A k \in 1..Len(Inbounds) : ~Passes(k)) =>
        /\ ~sel.ok
        /\ sel.err.kind = "no_matching_inbound"
        /\ sel.last # NoErr
        /\ sel.last = ParseOne(Len(Inbounds) - 1, Inbounds[Len(Inbounds)]).err

\* two failing candidates with different errors: the aggregate embeds the second
C3_Witness ==
    /\ SelectDone /\ Auto /\ Len(Inbounds) = 2
    /\ ~Passes(1) /\ ~Passes(2)
    /\ ParseOne(0, Inbounds[1]).err.kind # ParseOne(1, Inbounds[2]).err.kind
    /\ ~sel.ok /\ sel.last.kind = ParseOne(1, Inbounds[2]).err.kind

(***************************************************************************)
(* C4                                                                      *)
(***************************************************************************)
OneCandidate ==
    /\ SelectDone /\ Len(Inbounds) = 1
    /\ args.inbound_index \in {NoIndex, Index(0)}

\* C4 as claimed: from a document with one well-formed candidate, extraction returns
\* a Record whose short id is the lowercased document value and whose other fields
\* are the document's values unchanged, surrounding whitespace included.
C4_AsClaimed ==
    (OneCandidate /\ WellFormed(Inbounds[1])) =>
        sel.ok /\ sel.rec = DeclaredRecord(Inbounds[1])

\* C4: from a document with one well-formed candidate, extraction returns a Record
\* whose string fields are the document's values with the surrounding whitespace
\* stripped, the short id lowercased as well, and whose port is the document's.
C4_FieldsStripped ==
    (OneCandidate /\ WellFormed(Inbounds[1])) =>
        sel.ok /\ sel.rec = StrippedRecord(Inbounds[1])

\* a well-formed candidate with whitespace around its strings and an upper-case
\* short id gave a Record without the whitespace
C4_Witness ==
    /\ OneCandidate /\ WellFormed(Inbounds[1])
    /\ DeclaredId(Inbounds[1]).s # Core(DeclaredId(Inbounds[1]).s)
    /\ DeclaredShortId(Inbounds[1]).s # Lower(DeclaredShortId(Inbounds[1]).s)
    /\ sel.ok /\ sel.rec.uuid = Core(DeclaredId(Inbounds[1]).s)
    /\ sel.rec.short_id = Lower(Core(DeclaredShortId(Inbounds[1]).s))

(***************************************************************************)
(* C5                                                                      *)
(***************************************************************************)
\* C5: the identifier of every Record is a canonical UUID: 36 characters, hex
\* groups of 8-4-4-4-12 joined by hyphens; every other form of the client id is
\* rejected.
C5_IdentifierCanonical ==
    (SelectDone /\ sel.ok) => IsCanonicalUuid(sel.rec.uuid)

(***************************************************************************)
(* C6                                                                      *)
(***************************************************************************)
\* the Record is a Record of the candidate at list position k
BuiltFrom(k) == sel.rec = StrippedRecord(Inbounds[k])

\* the positions the Record may come from: the index given, any position otherwise
Sources ==
    IF Auto THEN 1..Len(Inbounds)
    ELSE {args.inbound_index.i + 1} \cap (1..Len(Inbounds))

LiteralProtocol(ib) == DeclaredProtocol(ib) = JStr(VLESS)

LiteralSecurity(ib) == DeclaredSecurity(ib) = JStr(REALITY)

StrippedSecurity(ib) == DeclaredSecurity(ib).t = "str" /\ Core(DeclaredSecurity(ib).s) = REALITY

\* C6 as claimed: every Record comes from a candidate whose declared protocol is the
\* literal "vless" and whose declared security is the literal "reality"; a candidate
\* with any other value of either, whitespace around the literal included, yields
\* no Record.
C6_AsClaimed ==
    (SelectDone /\ sel.ok) =>
        \E k \in Sources :
            BuiltFrom(k) /\ Passes(k) /\ LiteralProtocol(Inbounds[k]) /\ LiteralSecurity(Inbounds[k])

\* C6: every Record comes from a candidate whose declared protocol is the literal
\* "vless" and whose declared security is a string equal to "reality" once its
\* surrounding whitespace is stripped; a candidate with any other value of either
\* (a protocol with whitespace around it, a non-string) yields no Record.
C6_ProtocolAndSecurity ==
    /\ (SelectDone /\ sel.ok) =>
          \E k \in Sources :
              /\ BuiltFrom(k) /\ Passes(k)
              /\ LiteralProtocol(Inbounds[k]) /\ StrippedSecurity(Inbounds[k])
    /\ SelectDone =>
          \A k \in 1..Len(Inbounds) :
              ~(LiteralProtocol(Inbounds[k]) /\ StrippedSecurity(Inbounds[k])) => ~Passes(k)

\* a first candidate with whitespace around "vless" was refused and the Record came
\* from the second, whose security has whitespace around "reality"
C6_Witness ==
    /\ SelectDone /\ Auto /\ Len(Inbounds) = 2
    /\ DeclaredProtocol(Inbounds[1]).t = "str"
    /\ DeclaredProtocol(Inbounds[1]).s # VLESS /\ Core(DeclaredProtocol(Inbounds[1]).s) = VLESS
    /\ ~Passes(1)
    /\ ~LiteralSecurity(Inbounds[2]) /\ StrippedSecurity(Inbounds[2])
    /\ sel.ok /\ BuiltFrom(2)

(***************************************************************************)
(* C7                                                                      *)
(***************************************************************************)
Started(stage) == \E i \in 1..Len(trace) : trace[i] = stage

\* the places of character c in s
Places(s, c) == {i \in 1..Len(s) : s[i] = c}

Least(S) == CHOOSE i \in S : \A j \in S : i <= j

Greatest(S) == CHOOSE i \in S : \A j \in S : j <= i

\* the pieces of s between the occurrences of c
RECURSIVE Split(_, _)
Split(s, c) ==
    IF Places(s, c) = {} THEN <<s>>
    ELSE <<SubSeq(s, 1, Least(Places(s, c)) - 1)>>
         \o Split(SubSeq(s, Least(Places(s, c)) + 1, Len(s)), c)

\* the query of a link: what lies between its first '?' and its last '#'
QueryOf(l) == SubSeq(l, Least(Places(l, "?")) + 1, Greatest(Places(l, "#")) - 1)

\* the query parameters of a link, in order, each <<key, value>> as written
ParamsOf(l) ==
    LET q == Split(QueryOf(l), "&")
    IN  [i \in 1..Len(q) |->
            LET eq == Least(Places(q[i], "="))
            IN  <<SubSeq(q[i], 1, eq - 1), SubSeq(q[i], eq + 1, Len(q[i]))>>]

KeysOf(l) == [i \in 1..Len(ParamsOf(l)) |-> ParamsOf(l)[i][1]]

FixedKeys == <<<<"t", "y", "p", "e">>, <<"s", "e", "c", "u", "r", "i", "t", "y">>, <<"s", "n", "i">>, <<"f", "p">>, <<"p", "b", "k">>, <<"s", "i", "d">>>>

C8_OneDiagnostic ==
    (pc = "exit" /\ exc.cls \in {"none", XrayUserError, CliUserError}) =>
        \/ exc.cls = "none" /\ status = 0 /\ stderr = <<>>
        \/ exc.cls # "none" /\ status # 0 /\ stderr = <<"ERROR">>

(***************************************************************************)
(* C9                                                                      *)
(***************************************************************************)
StageOrder ==
    <<"ensure_xray", "write_key_file", "scp_download", "load", "select", "derive", "build",
      "dry_run", "qr_png", "print_link", "print_qr", "tg_send_message", "tg_send_photo">>

Rank(stage) == CHOOSE i \in 1..Len(StageOrder) : StageOrder[i] = stage

\* C9: the stages of a run start in the order load, extract, derive, build, write
\* image, print and relay, and a failure ends the run there: no stage starts after
\* the one that failed; derivation does not start, nor is the binary spawned, unless
\* extraction returned a Record; the image is not written unless derivation
\* returned a key; nothing is printed or sent unless the image was written (a dry
\* run, which writes no image, prints the link); the photo is not sent unless the
\* message was.
C9_StagesInOrder ==
    /\ \A i, j \in 1..Len(trace) : i < j => Rank(trace[i]) < Rank(trace[j])
    /\ exc.cls # "none" =>
          /\ trace[Len(trace)] = exc.stage
          /\ pc \in {"finally", "toplevel", "exit"}
    /\ Started("select") => IsDict(cfg)
    /\ (Started("derive") \/ spawns > 0) => sel.ok
    /\ (Started("build") \/ Started("qr_png") \/ png # "absent") => key.ok
    /\ Started("qr_png") => Started("build") /\ ~Started("dry_run")
    /\ (Started("print_link") \/ Started("print_qr") \/ Started("tg_send_message")) =>
          png = "written"
    /\ stdout # <<>> => (png = "written" \/ (Started("dry_run") /\ png = "absent"))
    /\ sent # <<>> => png = "written" /\ sent[1] = "message"
    /\ Started("tg_send_photo") => Len(sent) >= 1 /\ sent[1] = "message"

\* a generate run whose message send failed: the photo send never started
C9_Witness ==
    /\ entry = "vpn_cli generate" /\ pc = "exit"
    /\ exc.stage = "tg_send_message" /\ png = "written"
    /\ ~Started("tg_send_photo") /\ sent = <<>>

(***************************************************************************)
(* C10                                                                     *)
(***************************************************************************)
\* the line holds one of the two labels and, after it, something that is not
\* whitespace
CarriesLabelledToken(line) ==
    \E p \in 1..Len(line) :
        /\ LabelLenAt(line, p) > 0
        /\ \E i \in (p + LabelLenAt(line, p))..Len(line) : line[i] \notin Whitespace

\* C10: a call of compute_public_key_from_private spawns the binary once; it fails
\* when the binary is not found, when the exit status is not zero, when no line of
\* the output carries a token labelled "Password:" or "PublicKey:", and when the
\* token parsed does not match [A-Za-z0-9_-]{32,}; a key it returns matches that
\* pattern.
C10_AsClaimed ==
    Started("derive") =>
        /\ spawns = 1
        /\ ~RunOf(runs, 1).found => ~key.ok
        /\ RunOf(runs, 1).returncode # 0 => ~key.ok
        /\ (\A i \in 1..Len(Split(RunOf(runs, 1).stdout, "\n")) :
                ~CarriesLabelledToken(Split(RunOf(runs, 1).stdout, "\n")[i])) => ~key.ok
        /\ (SearchPublicKey(Strip(RunOf(runs, 1).stdout)).hit
               /\ ~IsKeyToken(SearchPublicKey(Strip(RunOf(runs, 1).stdout)).group1)) => ~key.ok
        /\ key.ok => IsKeyToken(key.pub)

\* the clauses of C10 other than the one on lines: one spawn and no second one even
\* where a second one would succeed, failure when the binary is not found, on a
\* non-zero exit status, when the pattern is found nowhere and on a token of the
\* wrong format, and a returned key of the right format
C10_OtherClauses ==
    Started("derive") =>
        /\ spawns = 1
        /\ ~RunOf(runs, 1).found => ~key.ok /\ key.err.kind = "xray_not_found"
        /\ (RunOf(runs, 1).found /\ RunOf(runs, 1).returncode # 0) => ~key.ok /\ key.err.kind = "xray_failed"
        /\ (\A p \in 1..Len(RunOf(runs, 1).stdout) : LabelLenAt(RunOf(runs, 1).stdout, p) = 0) => ~key.ok
        /\ (SearchPublicKey(Strip(RunOf(runs, 1).stdout)).hit
               /\ ~IsKeyToken(SearchPublicKey(Strip(RunOf(runs, 1).stdout)).group1)) => ~key.ok
        /\ key.ok => IsKeyToken(key.pub)
        /\ ~key.ok => pc \in {"finally", "toplevel", "exit"}

(***************************************************************************)
(* C11                                                                     *)
(***************************************************************************)
\* the checks made on one candidate, a field's shape and its format taken apart
ShapeSteps == {"a", "b", "c", "d", "e", "f", "g_shape", "h_shape"}

\* the candidate violates the step
Violated(step, ib) ==
    CASE step = "a" -> ib.t # "dict" \/ DeclaredProtocol(ib) # JStr(VLESS)
      [] step = "b" -> DeclaredPort(ib).t # "int" \/ DeclaredPort(ib).n \notin 1..65535
      [] step = "c" ->
            \/ Get(ib, "settings").t # "dict"
            \/ Get(Get(ib, "settings"), "clients").t # "list"
            \/ DeclaredClient(ib).t # "dict"
            \/ ~IsText(DeclaredId(ib))
            \/ DeclaredFlow(ib).t # "null" /\ ~IsText(DeclaredFlow(ib))
      [] step = "d" -> Get(ib, "streamSettings").t # "dict" \/ ~IsText(DeclaredNetwork(ib))
      [] step = "e" -> ~IsText(DeclaredSecurity(ib)) \/ Core(DeclaredSecurity(ib).s) # REALITY
      [] step = "f" -> DeclaredReality(ib).t # "dict" \/ ~IsText(DeclaredSni(ib))
      [] step = "g_shape" -> ~IsText(DeclaredShortId(ib))
      [] step = "g_format" ->
            IsText(DeclaredShortId(ib)) /\ ~IsEvenHex(Core(DeclaredShortId(ib).s))
      [] step = "h_shape" -> ~IsText(DeclaredPrivateKey(ib))
      [] step = "h_format" ->
            IsText(DeclaredPrivateKey(ib)) /\ ~IsKeyToken(Core(DeclaredPrivateKey(ib).s))
      [] step = "i" -> IsText(DeclaredId(ib)) /\ ~UUIDParses(Core(DeclaredId(ib).s))

\* the step an error of parse_one comes from
StepOf(e) ==
    CASE e.kind = "invalid_uuid" -> "i"
      [] e.kind \in {"shortid_not_hex", "shortid_odd_length"} -> "g_format"
      [] e.kind = "privatekey_format" -> "h_format"
      [] e.where \in {"inbounds[]", "protocol"} -> "a"
      [] e.where = "port" -> "b"
      [] e.where \in {"settings", "settings.clients", "settings.clients[0]",
                      "settings.clients[0].id", "settings.clients[0].flow"} -> "c"
      [] e.where \in {"streamSettings", "streamSettings.network"} -> "d"
      [] e.where = "streamSettings.security" -> "e"
      [] e.where \in {"streamSettings.realitySettings", "realitySettings.serverNames",
                      "realitySettings.serverNames[0]"} -> "f"
      [] e.where \in {"realitySettings.shortIds", "realitySettings.shortIds[0]"} -> "g_shape"
      [] e.where = "realitySettings.privateKey" -> "h_shape"
      [] OTHER -> "none"

\* the order as listed: short id with its format, private key with its format, then
\* the format of the id
ListedOrder ==
    <<"a", "b", "c", "d", "e", "f", "g_shape", "g_format", "h_shape", "h_format", "i">>

\* every presence and shape check first, then the formats: id, short id, private key
ShapeThenFormatOrder ==
    <<"a", "b", "c", "d", "e", "f", "g_shape", "h_shape", "i", "g_format", "h_format">>

ViolatedAt(order, ib) == {k \in 1..Len(order) : Violated(order[k], ib)}

\* the earliest step of the order that the candidate violates
EarliestViolated(order, ib) == order[Least(ViolatedAt(order, ib))]

\* the one candidate validated by a call with an index in range
AtIndex == Inbounds[args.inbound_index.i + 1]

IndexedDone ==
    /\ SelectDone /\ ~Auto
    /\ args.inbound_index.i >= 0 /\ args.inbound_index.i < Len(Inbounds)

\* the failure of the candidate at the index is that of the earliest step of the
\* order it violates, and it passes when it violates none
ReportsEarliest(order) ==
    IndexedDone =>
        /\ sel.ok <=> ViolatedAt(order, AtIndex) = {}
        /\ ~sel.ok => StepOf(sel.err) = EarliestViolated(order, AtIndex)

\* C11 as claimed: a candidate is checked in the order protocol, port, clients/id/flow
\* shape, network, security, serverNames, shortIds with the even-length-hex format,
\* privateKey with its format, UUID format of the id, and the failure reported is
\* that of the earliest violated step of this order: a candidate with a malformed
\* short id and a malformed UUID is reported with the short-id failure.
C11_AsClaimed == ReportsEarliest(ListedOrder)

\* C11: a candidate is checked in the order protocol, port, clients/id/flow shape,
\* network, security, serverNames, presence and shape of shortIds[0], presence and
\* shape of privateKey, and only then the formats: UUID format of the id, then the
\* even-length-hex format of the short id, then the format of the private key; the
\* failure reported is that of the earliest violated step of this order, so a
\* candidate with a malformed short id and a malformed UUID is reported with the
\* UUID failure, and one that fails a shape check with that one whatever its formats.
C11_ShapeThenFormat ==
    /\ ReportsEarliest(ShapeThenFormatOrder)
    /\ (IndexedDone /\ Violated("g_format", AtIndex) /\ Violated("i", AtIndex)
           /\ \A x \in ShapeSteps : ~Violated(x, AtIndex)) =>
          ~sel.ok /\ sel.err.kind = "invalid_uuid"

\* a candidate with an odd-length short id and a malformed UUID, every shape right,
\* was validated and the UUID failure was reported
C11_Witness ==
    /\ IndexedDone
    /\ Violated("g_format", AtIndex) /\ Violated("i", AtIndex)
    /\ \A x \in ShapeSteps : ~Violated(x, AtIndex)
    /\ ~sel.ok /\ sel.err.kind = "invalid_uuid" /\ StepOf(sel.err) = "i"

(***************************************************************************)
(* C12                                                                     *)
(***************************************************************************)
\* C12: in vpn_cli generate, once the temporary file of the SSH private key has been
\* created, it is removed before the run ends, on every exit path: no run ends with
\* the key file still present.
C12_KeyFileRemoved ==
    (entry = "vpn_cli generate" /\ pc = "exit") => keyfile # "present"

=============================================================================
